---------------------------- MODULE Spec2Model ----------------------------
(***************************************************************************)
(* Barnes-Hut N-body simulation (Nbody/simulation): the quadtree arena,    *)
(* the collision resolver and the step orchestrator.                       *)
(*                                                                         *)
(* Arithmetic.  An f32 is modelled by an exact rational <<n, d>> in lowest *)
(* terms with d > 0, plus the three IEEE special values written with a     *)
(* zero denominator: NaN = <<0,0>>, +inf = <<1,0>>, -inf = <<-1,0>>.       *)
(* A result is exact as long as the integers of its computation fit 32     *)
(* bits, which is the case on every input the algebraic claims about the   *)
(* quadtree and the resolver are checked on: they are read over the reals. *)
(* Where it does not fit, the operands are first rounded to a few          *)
(* significant bits (Coarse), far fewer than the 24 of an f32.  sqrt is    *)
(* exact on perfect squares and is otherwise rounded down to a multiple of *)
(* 1/SqrtGrid, or to a finer one where that would be zero.                 *)
(*                                                                         *)
(* Arena indices are 0-based as in the source; a Vec<T> is a TLA+ sequence *)
(* read through At(s, i) == s[i + 1].                                      *)
(***************************************************************************)
EXTENDS Integers, Sequences, FiniteSets, TLC

VARIABLES
    bodies,      \* Simulation.bodies : Vec<Body>
    frame,       \* Simulation.frame
    use_rayon,   \* Simulation.use_rayon
    dt,          \* Simulation.dt
    t_sq,        \* Quadtree.t_sq
    e_sq,        \* Quadtree.e_sq
    nodes,       \* Quadtree.nodes : Vec<Node>
    parents,     \* Quadtree.parents : Vec<usize>
    pc,          \* position of the caller inside step() / of the driver
    chunks,      \* parallel-for: the sub-ranges handed out, each with its cursor
    pairs,       \* collide: the overlapping pairs the broad phase still has to report
    snap,        \* the bodies at the last phase boundary (history variable)
    trace,       \* the phases of the step in flight, in the order they completed (history variable)
    ins,         \* tree driver: number of bodies inserted so far
    query,       \* tree driver: the position of the last force query
    result,      \* tree driver: what the last force query returned
    found,       \* tree driver: the last collision query (body_idx, radius) and the
                 \* body indices its callback received, in order
    op           \* the latest call made through the API, its argument, and how many
                 \* state-changing calls came before and with it (history variable)

vars == <<bodies, frame, use_rayon, dt, t_sq, e_sq, nodes, parents, pc,
          chunks, pairs, snap, trace, ins, query, result, found, op>>

-----------------------------------------------------------------------------
(* Bounds of the model. *)

MaxTreeBodies == 3  \* bodies inserted into one tree
MaxBodies == 2      \* bodies in the simulation
MaxDepth == 20      \* subdivisions one insert may make before it is cut off
MaxFrame == 2       \* steps explored per run
SqrtGrid == 1       \* an irrational square root is rounded down on a grid of 1/SqrtGrid or finer
MaxCalls == 1       \* state-changing API calls other than step explored per run
FloatGrid == 16     \* a rounded value between 1 and FloatCoarse is a multiple of 1/FloatGrid

-----------------------------------------------------------------------------
(* f32 arithmetic *)

Abs(x) == IF x < 0 THEN -x ELSE x

Sign(x) == IF x < 0 THEN -1 ELSE IF x > 0 THEN 1 ELSE 0

RECURSIVE GCD(_, _)
GCD(a, b) == IF b = 0 THEN a ELSE GCD(b, a % b)

\* n/d in lowest terms, d > 0.
Reduced(n, d) == <<n \div GCD(Abs(n), d), d \div GCD(Abs(n), d)>>

Norm(n, d) == IF d = 0 THEN <<Sign(n), 0>> ELSE Reduced(Sign(d) * n, Abs(d))

R(n) == <<n, 1>>
Zero == R(0)
One == R(1)
Half == <<1, 2>>
NaN == <<0, 0>>
PInf == <<1, 0>>
NInf == <<-1, 0>>

IsNaN(a) == a = NaN
IsFinite(a) == a[2] # 0

\* A product is taken exactly when it stays under IntLimit, so that the sum of
\* two products still fits 32 bits.
IntLimit == 2^30 - 1
Fits(x, y) == y = 0 \/ Abs(x) <= IntLimit \div Abs(y)

\* The rounding of a value whose exact use does not fit.  From FloatCoarse on
\* it keeps no fraction; from 1 on it keeps multiples of 1/FloatGrid; below 1
\* the grid is refined by halving, down to 1/FloatFine.  The remainder r/e
\* (r < e) is the fraction, taken with e scaled down to FloatScale at most.
FloatCoarse == 2^11
FloatFine == 2^12
FloatScale == 2^16

RECURSIVE Fraction(_, _, _, _)
Fraction(sign, r, e, g) ==
    IF r = 0 THEN Zero
    ELSE IF 2 * r >= e \/ 2 * g > FloatFine
    THEN Reduced(sign * ((2 * r * g + e) \div (2 * e)), g)
    ELSE Fraction(sign, 2 * r, e, 2 * g)

RoundedAt(sign, q, r, e) ==
    IF q >= FloatCoarse THEN <<sign * (q + (IF 2 * r >= e THEN 1 ELSE 0)), 1>>
    ELSE IF q >= 1
    THEN Reduced(sign * (q * FloatGrid + ((2 * r * FloatGrid + e) \div (2 * e))), FloatGrid)
    ELSE Fraction(sign, r, e, FloatGrid)

Rounded(n, d) ==
    RoundedAt(Sign(n), Abs(n) \div d,
              (Abs(n) % d) \div ((d \div FloatScale) + 1), d \div ((d \div FloatScale) + 1))

Coarse(a) == IF a[2] <= 1 THEN a ELSE Rounded(a[1], a[2])

Neg(a) == <<-a[1], a[2]>>

\* The sum over the least common denominator, g being the gcd of the two.
AddRaw(a, b, g) ==
    Norm(a[1] * (b[2] \div g) + b[1] * (a[2] \div g), (a[2] \div g) * b[2])

FitsAdd(a, b, g) ==
    Fits(a[1], b[2] \div g) /\ Fits(b[1], a[2] \div g) /\ Fits(a[2] \div g, b[2])

\* The sum of two integers; beyond IntLimit it overflows to an infinity.
AddInt(x, y) ==
    IF x > 0 /\ y > IntLimit - x THEN PInf
    ELSE IF x < 0 /\ y < (-IntLimit) - x THEN NInf
    ELSE <<x + y, 1>>

\* The sum of two rounded values; where even that does not fit, one of them is
\* too small to count against the other and only the integer parts are added.
AddCoarse(a, b) ==
    IF FitsAdd(a, b, GCD(a[2], b[2])) THEN AddRaw(a, b, GCD(a[2], b[2]))
    ELSE AddInt(a[1] \div a[2], b[1] \div b[2])

Add(a, b) ==
    IF IsFinite(a) /\ IsFinite(b)
    THEN IF FitsAdd(a, b, GCD(a[2], b[2])) THEN AddRaw(a, b, GCD(a[2], b[2]))
         ELSE AddCoarse(Coarse(a), Coarse(b))
    ELSE IF IsNaN(a) \/ IsNaN(b) THEN NaN
    ELSE IF IsFinite(a) THEN b
    ELSE IF IsFinite(b) THEN a
    ELSE IF a = b THEN a ELSE NaN

Sub(a, b) == Add(a, Neg(b))

\* The product, the factors reduced crosswise first: g1 is the gcd of a's
\* numerator and b's denominator, g2 that of b's numerator and a's denominator.
MulRaw(a, b, g1, g2) ==
    Norm((a[1] \div g1) * (b[1] \div g2), (a[2] \div g2) * (b[2] \div g1))

FitsMul(a, b, g1, g2) ==
    Fits(a[1] \div g1, b[1] \div g2) /\ Fits(a[2] \div g2, b[2] \div g1)

MulFinite(a, b) == MulRaw(a, b, GCD(Abs(a[1]), b[2]), GCD(Abs(b[1]), a[2]))

\* A large integer k times the fraction n/d, the result an integer: k times
\* the integer part, plus k times the remainder over d taken in two parts.
MulSplit(k, n, d) ==
    IF ~Fits(k, (Abs(n) \div d) + 1) THEN <<Sign(k) * Sign(n), 0>>
    ELSE <<Sign(k) * Sign(n) * (Abs(k) * (Abs(n) \div d)
                                + (Abs(k) \div d) * (Abs(n) % d)
                                + (((Abs(k) % d) * (Abs(n) % d)) \div d)), 1>>

\* The product of two rounded values.  Two fractions always fit; two integers
\* that do not fit overflow to an infinity.
MulCoarse(a, b) ==
    IF FitsMul(a, b, GCD(Abs(a[1]), b[2]), GCD(Abs(b[1]), a[2])) THEN MulFinite(a, b)
    ELSE IF a[2] = 1 /\ b[2] = 1 THEN <<Sign(a[1]) * Sign(b[1]), 0>>
    ELSE IF a[2] = 1 THEN MulSplit(a[1], b[1], b[2])
    ELSE MulSplit(b[1], a[1], a[2])

Mul(a, b) ==
    IF IsFinite(a) /\ IsFinite(b)
    THEN IF FitsMul(a, b, GCD(Abs(a[1]), b[2]), GCD(Abs(b[1]), a[2]))
         THEN MulFinite(a, b)
         ELSE MulCoarse(Coarse(a), Coarse(b))
    ELSE <<Sign(a[1]) * Sign(b[1]), 0>>

Inv(a) == Norm(a[2], a[1])

\* The reciprocal of a finite nonzero b, not in lowest terms.
Recip(b) == <<Sign(b[1]) * b[2], Abs(b[1])>>

\* a / b: where the quotient does not fit, it is taken as the ratio of the
\* numerators times the ratio of the denominators.
Div(a, b) ==
    IF IsFinite(a) /\ IsFinite(b) /\ b[1] # 0
    THEN IF FitsMul(a, Recip(b), GCD(Abs(a[1]), Abs(b[1])), GCD(b[2], a[2]))
         THEN MulFinite(a, Recip(b))
         ELSE Mul(Norm(a[1], b[1]), Norm(b[2], a[2]))
    ELSE Mul(a, Inv(b))

\* a == b on f32: false when either side is NaN.
NumEq(a, b) == ~IsNaN(a) /\ ~IsNaN(b) /\ a = b

\* n1/d1 < n2/d2 for positive denominators: the integer parts decide, then the
\* reciprocals of the fractions, as in Euclid's algorithm.
RECURSIVE LtQ(_, _, _, _)
LtQ(n1, d1, n2, d2) ==
    IF n1 \div d1 # n2 \div d2 THEN n1 \div d1 < n2 \div d2
    ELSE IF n2 % d2 = 0 THEN FALSE
    ELSE IF n1 % d1 = 0 THEN TRUE
    ELSE LtQ(d2, n2 % d2, d1, n1 % d1)

\* a < b on f32: false when either side is NaN.
Lt(a, b) ==
    IF IsNaN(a) \/ IsNaN(b) THEN FALSE
    ELSE IF IsFinite(a) /\ IsFinite(b) THEN LtQ(a[1], a[2], b[1], b[2])
    ELSE IF a = b THEN FALSE
    ELSE a = NInf \/ b = PInf

Gt(a, b) == Lt(b, a)
Ge(a, b) == Lt(b, a) \/ NumEq(a, b)
Le(a, b) == Lt(a, b) \/ NumEq(a, b)

\* f32::min and f32::max return the other operand when one is NaN.
FMin(a, b) == IF IsNaN(a) THEN b ELSE IF IsNaN(b) THEN a ELSE IF Lt(b, a) THEN b ELSE a
FMax(a, b) == IF IsNaN(a) THEN b ELSE IF IsNaN(b) THEN a ELSE IF Lt(a, b) THEN b ELSE a

RECURSIVE ISqrtIn(_, _, _)
ISqrtIn(n, lo, hi) ==
    \* the largest k in lo..hi with k * k <= n, given lo * lo <= n
    IF lo >= hi THEN lo
    ELSE LET mid == (lo + hi + 1) \div 2
         IN  IF mid * mid <= n THEN ISqrtIn(n, mid, hi) ELSE ISqrtIn(n, lo, mid - 1)

ISqrt(n) == ISqrtIn(n, 0, IF n < 46340 THEN n ELSE 46340)

IsSquare(a) ==
    /\ IsFinite(a) /\ a[1] >= 0
    /\ ISqrt(a[1]) * ISqrt(a[1]) = a[1]
    /\ ISqrt(a[2]) * ISqrt(a[2]) = a[2]

\* The root of n/d rounded down to a multiple of 1/g; where that would be zero
\* the grid is refined by halving, so that a positive value has a positive root.
SqrtFine == 2^12

RECURSIVE SqrtFloor(_, _, _)
SqrtFloor(n, d, g) ==
    IF ~Fits(n, g * g) THEN R(ISqrt(n \div d))
    ELSE IF (n * g * g) \div d >= 1 \/ ~Fits(n, 4 * g * g) \/ 2 * g > SqrtFine
    THEN Norm(ISqrt((n * g * g) \div d), g)
    ELSE SqrtFloor(n, d, 2 * g)

Sqrt(a) ==
    IF IsNaN(a) \/ a = NInf THEN NaN
    ELSE IF a = PInf THEN PInf
    ELSE IF a[1] < 0 THEN NaN
    ELSE IF IsSquare(a) THEN <<ISqrt(a[1]), ISqrt(a[2])>>
    ELSE SqrtFloor(a[1], a[2], SqrtGrid)

-----------------------------------------------------------------------------
(* ultraviolet::Vec2 *)

V(x, y) == <<x, y>>
VZero == V(Zero, Zero)
VOne == V(One, One)
VAdd(a, b) == V(Add(a[1], b[1]), Add(a[2], b[2]))
VSub(a, b) == V(Sub(a[1], b[1]), Sub(a[2], b[2]))
VScale(a, k) == V(Mul(a[1], k), Mul(a[2], k))
VDivS(a, k) == V(Div(a[1], k), Div(a[2], k))
Dot(a, b) == Add(Mul(a[1], b[1]), Mul(a[2], b[2]))
MagSq(a) == Dot(a, a)
Mag(a) == Sqrt(MagSq(a))
VEq(a, b) == NumEq(a[1], b[1]) /\ NumEq(a[2], b[2])
VFinite(a) == IsFinite(a[1]) /\ IsFinite(a[2])

\* Vec<T> with the source's 0-based indices.
At(s, i) == s[i + 1]
Put(s, i, x) == [s EXCEPT ![i + 1] = x]

-----------------------------------------------------------------------------
(* body.rs *)

\* Body::new: the acceleration starts at zero.
NewBody(pos, vel, mass, radius) ==
    [pos |-> pos, vel |-> vel, acc |-> VZero, mass |-> mass, radius |-> radius]

\* Body::update: semi-implicit Euler, velocity first.
Moved(b, v, h) == [b EXCEPT !.vel = v, !.pos = VAdd(b.pos, VScale(v, h))]

Update(b, h) == Moved(b, VAdd(b.vel, VScale(b.acc, h)), h)

-----------------------------------------------------------------------------
(* quadtree.rs: Quad *)

RECURSIVE FoldMin(_, _, _, _)
FoldMin(bs, k, c, m) ==
    IF k > Len(bs) THEN m ELSE FoldMin(bs, k + 1, c, FMin(m, bs[k].pos[c]))

RECURSIVE FoldMax(_, _, _, _)
FoldMax(bs, k, c, m) ==
    IF k > Len(bs) THEN m ELSE FoldMax(bs, k + 1, c, FMax(m, bs[k].pos[c]))

\* Quad::new_containing.  The folds start from f32::MAX and f32::MIN, which no
\* model value reaches: they are written +inf and -inf, and for an empty slice
\* the source's MAX + MIN = 0 and MIN - MAX = -inf are returned directly.
Containing(min_x, min_y, max_x, max_y) ==
    [center |-> VScale(V(Add(min_x, max_x), Add(min_y, max_y)), Half),
     size |-> FMax(Sub(max_x, min_x), Sub(max_y, min_y))]

NewContaining(bs) ==
    IF Len(bs) = 0 THEN [center |-> VZero, size |-> NInf]
    ELSE Containing(FoldMin(bs, 1, 1, PInf), FoldMin(bs, 1, 2, PInf),
                    FoldMax(bs, 1, 1, NInf), FoldMax(bs, 1, 2, NInf))

\* Quad::find_quadrant: bit 0 is pos.x > center.x, bit 1 is pos.y > center.y.
FindQuadrant(q, pos) ==
    (IF Gt(pos[2], q.center[2]) THEN 2 ELSE 0) + (IF Gt(pos[1], q.center[1]) THEN 1 ELSE 0)

\* Quad::into_quadrant.
Quadrant(center, size, quadrant) ==
    [center |-> V(Add(center[1], Mul(Sub(R(quadrant % 2), Half), size)),
                  Add(center[2], Mul(Sub(R(quadrant \div 2), Half), size))),
     size |-> size]

IntoQuadrant(q, quadrant) == Quadrant(q.center, Mul(q.size, Half), quadrant)

-----------------------------------------------------------------------------
(* quadtree.rs: Node and Quadtree *)

ROOT == 0
NoBody == -1     \* u32::MAX, the body_index of a node that holds no body

\* Node::new.
NewNode(next, quad) ==
    [children |-> 0, next |-> next, pos |-> VZero, mass |-> Zero, quad |-> quad,
     body_index |-> NoBody]

IsLeaf(n) == n.children = 0
IsBranch(n) == n.children # 0
IsEmpty(n) == NumEq(n.mass, Zero)

\* A tree is [nodes, parents]; Quadtree::clear.
Clear(quad) == [nodes |-> <<NewNode(0, quad)>>, parents |-> <<>>]

\* (mutant) the last child is given next = 0 instead of the parent's next.
Subdivide_Unlinked(T, node) ==
    LET children == Len(T.nodes)
        n == At(T.nodes, node)
        nexts == <<children + 1, children + 2, children + 3, 0>>
        kids == [i \in 1..4 |-> NewNode(nexts[i], IntoQuadrant(n.quad, i - 1))]
    IN  [nodes |-> Put(T.nodes, node, [n EXCEPT !.children = children]) \o kids,
         parents |-> Append(T.parents, node)]

\* (mutant) the subdivided node is recorded at the front of parents.
Subdivide_Prepending(T, node) ==
    LET children == Len(T.nodes)
        n == At(T.nodes, node)
        nexts == <<children + 1, children + 2, children + 3, n.next>>
        kids == [i \in 1..4 |-> NewNode(nexts[i], IntoQuadrant(n.quad, i - 1))]
    IN  [nodes |-> Put(T.nodes, node, [n EXCEPT !.children = children]) \o kids,
         parents |-> <<node>> \o T.parents]

\* (mutant) the second child is linked to the fourth, past the third.
Subdivide_SkippingThird(T, node) ==
    LET children == Len(T.nodes)
        n == At(T.nodes, node)
        nexts == <<children + 1, children + 3, children + 3, n.next>>
        kids == [i \in 1..4 |-> NewNode(nexts[i], IntoQuadrant(n.quad, i - 1))]
    IN  [nodes |-> Put(T.nodes, node, [n EXCEPT !.children = children]) \o kids,
         parents |-> Append(T.parents, node)]

\* Quadtree::subdivide: the four children are pushed at the end of the arena.
Subdivide(T, node) ==
    LET children == Len(T.nodes)
        n == At(T.nodes, node)
        nexts == <<children + 1, children + 2, children + 3, n.next>>
        kids == [i \in 1..4 |-> NewNode(nexts[i], IntoQuadrant(n.quad, i - 1))]
    IN  [nodes |-> Put(T.nodes, node, [n EXCEPT !.children = children]) \o kids,
         parents |-> Append(T.parents, node)]

\* The descent of insert: while the node is a branch, go to children + quadrant.
RECURSIVE Descend(_, _, _)
Descend(ns, node, pos) ==
    IF IsBranch(At(ns, node))
    THEN Descend(ns, At(ns, node).children + FindQuadrant(At(ns, node).quad, pos), pos)
    ELSE node

\* The split loop of insert: subdivide until the resident body (p, m, idx) and
\* the new one fall in different quadrants.  The source's loop has no bound; the
\* model cuts it off after fuel subdivisions and reports the tree as "hung".
RECURSIVE SplitLoop(_, _, _, _, _, _, _, _, _)

\* (mutant) the leaf is written without its body_index.
SetLeaf_NoIndex(ns, n, pos, mass, body_index) ==
    Put(ns, n, [At(ns, n) EXCEPT !.pos = pos, !.mass = mass])

\* self.nodes[n].pos = pos; .mass = mass; .body_index = body_index.
SetLeaf(ns, n, pos, mass, body_index) ==
    Put(ns, n, [At(ns, n) EXCEPT !.pos = pos, !.mass = mass, !.body_index = body_index])

\* One round of the loop on the tree S just subdivided at node: q1 and q2 are
\* the quadrants of the resident and of the new body.
SplitRound(S, children, q1, q2, p, m, idx, pos, mass, body_index, fuel) ==
    IF q1 = q2
    THEN SplitLoop(S, children + q1, p, m, idx, pos, mass, body_index, fuel - 1)
    ELSE [nodes |-> SetLeaf(SetLeaf(S.nodes, children + q1, p, m, idx),
                            children + q2, pos, mass, body_index),
          parents |-> S.parents, hung |-> FALSE]

Subdivided(S, node, p, m, idx, pos, mass, body_index, fuel) ==
    SplitRound(S, At(S.nodes, node).children,
               FindQuadrant(At(S.nodes, node).quad, p),
               FindQuadrant(At(S.nodes, node).quad, pos),
               p, m, idx, pos, mass, body_index, fuel)

SplitLoop(T, node, p, m, idx, pos, mass, body_index, fuel) ==
    IF fuel = 0 THEN [nodes |-> T.nodes, parents |-> T.parents, hung |-> TRUE]
    ELSE Subdivided(Subdivide(T, node), node, p, m, idx, pos, mass, body_index, fuel)

\* (mutant) the merge overwrites the mass of the leaf instead of adding to it.
Merge_Overwrite(n, mass) == [n EXCEPT !.mass = mass]

\* The merge of insert: self.nodes[node].mass += mass.
Merge(n, mass) == [n EXCEPT !.mass = Add(n.mass, mass)]

\* Quadtree::insert.  The result carries hung = TRUE when the split loop was cut off.
\* insert once the descent has reached the leaf n at index node.
InsertAt(T, node, n, pos, mass, body_index) ==
    IF IsEmpty(n)
    THEN [nodes |-> SetLeaf(T.nodes, node, pos, mass, body_index),
          parents |-> T.parents, hung |-> FALSE]
    ELSE IF VEq(pos, n.pos)
    THEN [nodes |-> Put(T.nodes, node, Merge(n, mass)),
          parents |-> T.parents, hung |-> FALSE]
    ELSE SplitLoop([nodes |-> T.nodes, parents |-> T.parents], node, n.pos, n.mass,
                   n.body_index, pos, mass, body_index, MaxDepth)

InsertFrom(T, node, pos, mass, body_index) ==
    InsertAt(T, node, At(T.nodes, node), pos, mass, body_index)

Insert(T, pos, mass, body_index) ==
    InsertFrom(T, Descend(T.nodes, ROOT, pos), pos, mass, body_index)

\* One iteration of propagate, for the parent at index node.
Weighted(n) == VScale(n.pos, n.mass)

\* The sums propagate takes over the four children that start at index i.
ChildrenMoment(ns, i) ==
    VAdd(VAdd(VAdd(Weighted(At(ns, i)), Weighted(At(ns, i + 1))), Weighted(At(ns, i + 2))),
         Weighted(At(ns, i + 3)))

ChildrenMass(ns, i) ==
    Add(Add(Add(At(ns, i).mass, At(ns, i + 1).mass), At(ns, i + 2).mass), At(ns, i + 3).mass)

SetCentre(ns, node, sum, mass) ==
    Put(ns, node, [At(ns, node) EXCEPT
                     !.pos = IF Gt(mass, Zero) THEN VDivS(sum, mass) ELSE sum,
                     !.mass = mass])

PropagateNode(ns, node) ==
    SetCentre(ns, node, ChildrenMoment(ns, At(ns, node).children),
              ChildrenMass(ns, At(ns, node).children))

\* Quadtree::propagate: the parents in reverse order of subdivision.
RECURSIVE PropagateFrom(_, _, _)
PropagateFrom(ns, ps, k) ==
    IF k = 0 THEN ns ELSE PropagateFrom(PropagateNode(ns, ps[k]), ps, k - 1)

\* (mutant) the parents are walked in the order of subdivision, shallowest first.
RECURSIVE PropagateForward(_, _, _)
PropagateForward(ns, ps, k) ==
    IF k > Len(ps) THEN ns ELSE PropagateForward(PropagateNode(ns, ps[k]), ps, k + 1)

Propagate_Forward(T) == [nodes |-> PropagateForward(T.nodes, T.parents, 1),
                         parents |-> T.parents]

Propagate(T) == [nodes |-> PropagateFrom(T.nodes, T.parents, Len(T.parents)),
                 parents |-> T.parents]

\* n.mass > 1e-10.  The floor lies below every positive value the model can
\* write (denominators stay under 2^31), so the test is mass > 0 here.
AboveMassFloor(m) == Gt(m, Zero)

\* (mutant) the square root is left out of the denominator.
Contribution_NoSqrt(d, mass, esq) == VScale(d, Div(mass, Add(MagSq(d), esq)))

\* The contribution of an accepted node: d * (mass / (denom_term * sqrt(denom_term))).
Pull(d, mass, denom_term) == VScale(d, Div(mass, Mul(denom_term, Sqrt(denom_term))))

Contribution(d, mass, esq) == Pull(d, mass, Add(MagSq(d), esq))

\* The Barnes-Hut criterion of acc: a leaf, or size^2 < d^2 * theta^2.
Accepts(n, pos, tsq) ==
    IsLeaf(n) \/ Lt(Mul(n.quad.size, n.quad.size), Mul(MagSq(VSub(n.pos, pos)), tsq))

\* The traversal loop of Quadtree::acc.
RECURSIVE AccLoop(_, _, _, _, _, _)

\* acc with the accepted node n added in.
Accumulate(n, pos, esq, acc) ==
    IF AboveMassFloor(n.mass)
    THEN VAdd(acc, Contribution(VSub(n.pos, pos), n.mass, esq)) ELSE acc

\* After an accepted node: done when it has no next, else on to next.
AccNext(ns, next, pos, tsq, esq, acc) ==
    IF next = 0 THEN acc ELSE AccLoop(ns, next, pos, tsq, esq, acc)

AccLoop(ns, node_idx, pos, tsq, esq, acc) ==
    IF Accepts(At(ns, node_idx), pos, tsq)
    THEN AccNext(ns, At(ns, node_idx).next, pos, tsq, esq,
                 Accumulate(At(ns, node_idx), pos, esq, acc))
    ELSE AccLoop(ns, At(ns, node_idx).children, pos, tsq, esq, acc)

\* The nodes the traversal of acc accepts, in the order it accepts them.
RECURSIVE AcceptedFrom(_, _, _, _)
AcceptedFrom(ns, node_idx, pos, tsq) ==
    LET n == At(ns, node_idx)
    IN  IF Accepts(n, pos, tsq)
        THEN IF n.next = 0 THEN <<node_idx>>
             ELSE <<node_idx>> \o AcceptedFrom(ns, n.next, pos, tsq)
        ELSE AcceptedFrom(ns, n.children, pos, tsq)

\* Quadtree::acc.
Acc(ns, pos, tsq, esq) ==
    IF Len(ns) = 0 THEN VZero ELSE AccLoop(ns, ROOT, pos, tsq, esq, VZero)

\* The walk of acc step by step.  A walk is the indices the loop dereferences,
\* in order, the nodes it accepts, and how it ends: "break" where next = 0,
\* "wild" on an index at or past nodes.len() (get_unchecked is undefined there),
\* "loop" once it is about to dereference more indices than there are nodes.
WalkEnd(visited, accepted, end) == [visited |-> visited, accepted |-> accepted, end |-> end]

RECURSIVE AccWalk(_, _, _, _, _, _)

\* The step of the walk at the node n of index node_idx.
AccWalkAt(ns, n, node_idx, pos, tsq, visited, accepted) ==
    IF Accepts(n, pos, tsq)
    THEN IF n.next = 0
         THEN WalkEnd(Append(visited, node_idx), Append(accepted, node_idx), "break")
         ELSE AccWalk(ns, n.next, pos, tsq, Append(visited, node_idx),
                      Append(accepted, node_idx))
    ELSE AccWalk(ns, n.children, pos, tsq, Append(visited, node_idx), accepted)

AccWalk(ns, node_idx, pos, tsq, visited, accepted) ==
    IF node_idx >= Len(ns) THEN WalkEnd(visited, accepted, "wild")
    ELSE IF Len(visited) >= Len(ns) THEN WalkEnd(visited, accepted, "loop")
    ELSE AccWalkAt(ns, At(ns, node_idx), node_idx, pos, tsq, visited, accepted)

\* Vec2::broadcast.
Broadcast(x) == V(x, x)

\* The AABB test of find_collisions between [min, max] and [q_min, q_max].
BoxesOverlap(min, max, q_min, q_max) ==
    /\ Gt(max[1], q_min[1]) /\ Lt(min[1], q_max[1])
    /\ Gt(max[2], q_min[2]) /\ Lt(min[2], q_max[2])

QuadOverlap(min, max, center, q_half) ==
    BoxesOverlap(min, max, VSub(center, Broadcast(q_half)), VAdd(center, Broadcast(q_half)))

QuadOverlaps(n, min, max) == QuadOverlap(min, max, n.quad.center, Mul(n.quad.size, Half))

\* The test of find_collisions before it calls back on a leaf.
Emits(n, body_idx) ==
    Gt(n.mass, Zero) /\ n.body_index # NoBody /\ n.body_index # body_idx

\* The walk of find_collisions; accepted lists the nodes at which the callback is called.
RECURSIVE CollisionWalk(_, _, _, _, _, _, _)

\* After a node that is not descended into: done when it has no next, else on to next.
CollisionNext(ns, n, node_idx, body_idx, min, max, visited, accepted) ==
    IF n.next = 0 THEN WalkEnd(Append(visited, node_idx), accepted, "break")
    ELSE CollisionWalk(ns, n.next, body_idx, min, max, Append(visited, node_idx), accepted)

CollisionWalkAt(ns, n, node_idx, body_idx, min, max, visited, accepted) ==
    IF QuadOverlaps(n, min, max)
    THEN IF IsLeaf(n)
         THEN CollisionNext(ns, n, node_idx, body_idx, min, max, visited,
                            IF Emits(n, body_idx) THEN Append(accepted, node_idx)
                            ELSE accepted)
         ELSE CollisionWalk(ns, n.children, body_idx, min, max,
                            Append(visited, node_idx), accepted)
    ELSE CollisionNext(ns, n, node_idx, body_idx, min, max, visited, accepted)

CollisionWalk(ns, node_idx, body_idx, min, max, visited, accepted) ==
    IF node_idx >= Len(ns) THEN WalkEnd(visited, accepted, "wild")
    ELSE IF Len(visited) >= Len(ns) THEN WalkEnd(visited, accepted, "loop")
    ELSE CollisionWalkAt(ns, At(ns, node_idx), node_idx, body_idx, min, max, visited,
                         accepted)

CollisionWalkOf(ns, body_idx, pos, radius) ==
    CollisionWalk(ns, ROOT, body_idx, VSub(pos, Broadcast(radius)),
                  VAdd(pos, Broadcast(radius)), <<>>, <<>>)

\* Quadtree::find_collisions: the body indices handed to the callback, in order.
Callbacks(ns, at) == [k \in 1..Len(at) |-> At(ns, at[k]).body_index]

FindCollisions(ns, body_idx, pos, radius) ==
    IF Len(ns) = 0 THEN <<>>
    ELSE Callbacks(ns, CollisionWalkOf(ns, body_idx, pos, radius).accepted)

-----------------------------------------------------------------------------
(* simulation.rs: the collision resolver *)

\* (mutant) the distance test is left to the broad phase: every reported pair is resolved.
Overlapping_Always(d, r) == TRUE

\* The narrow-phase test of resolve: it returns early when d.mag_sq() > r * r.
Overlapping(d, r) == ~Gt(MagSq(d), Mul(r, r))

\* (mutant) the push is d * (r / |d|), without the - 1.0.
SeparationPush_NoMinusOne(d, r) == VScale(d, Div(r, Mag(d)))

\* tmp of the separating branch: d * (r / d.mag() - 1.0).
SeparationPush(d, r) == VScale(d, Sub(Div(r, Mag(d)), One))

\* The rewind time t of the impacting branch.
RewindTime(d_dot_v, v_sq, d_sq, r_sq) ==
    Div(Add(d_dot_v,
            Sqrt(FMax(Sub(Mul(d_dot_v, d_dot_v), Mul(v_sq, Sub(d_sq, r_sq))), Zero))),
        v_sq)

\* (mutant) the impulse uses the coefficient 0.5 instead of 1.5.
Impulse_Weak(d, d_dot_v, d_sq) == VScale(d, Div(Mul(Half, d_dot_v), d_sq))

\* tmp of the impacting branch: d * (1.5 * d_dot_v / d_sq).
Impulse(d, d_dot_v, d_sq) == VScale(d, Div(Mul(<<3, 2>>, d_dot_v), d_sq))

\* self.bodies[k].pos -= delta, self.bodies[k].pos += delta, self.bodies[k].vel = v.
SubPos(bs, k, delta) == Put(bs, k, [At(bs, k) EXCEPT !.pos = VSub(@, delta)])
AddPos(bs, k, delta) == Put(bs, k, [At(bs, k) EXCEPT !.pos = VAdd(@, delta)])
\* (mutant) the rebound also hands the body a unit of mass.
SetVel_Absorbing(bs, k, v) ==
    Put(bs, k, [At(bs, k) EXCEPT !.vel = v, !.mass = Add(@, One)])

SetVel(bs, k, v) == Put(bs, k, [At(bs, k) EXCEPT !.vel = v])

\* The separating branch: the two positions are pushed apart by tmp, weighted.
PushApart(bs, i, j, tmp, weight1, weight2) ==
    AddPos(SubPos(bs, i, VScale(tmp, weight1)), j, VScale(tmp, weight2))

\* The impacting branch after the impulse: the new velocities w1 and w2 are
\* stored and the positions are fast-forwarded by t.
FastForward(bs, i, j, w1, w2, t) ==
    AddPos(AddPos(SetVel(SetVel(bs, i, w1), j, w2), i, VScale(w1, t)), j, VScale(w2, t))

\* The impacting branch at the rewound positions: d, d_dot_v and d_sq are taken
\* again there and the impulse tmp changes the velocities.
Rebound(bs, i, j, v1, v2, v, weight1, weight2, t, d) ==
    FastForward(bs, i, j,
                VAdd(v1, VScale(Impulse(d, Dot(d, v), MagSq(d)), weight1)),
                VSub(v2, VScale(Impulse(d, Dot(d, v), MagSq(d)), weight2)), t)

\* The positions rewound by t.
Rewind(bs, i, j, v1, v2, t) == SubPos(SubPos(bs, i, VScale(v1, t)), j, VScale(v2, t))

\* The impacting branch of resolve.
Impact(bs, i, j, v1, v2, v, weight1, weight2, t) ==
    Rebound(Rewind(bs, i, j, v1, v2, t), i, j, v1, v2, v, weight1, weight2, t,
            VSub(At(Rewind(bs, i, j, v1, v2, t), j).pos, At(Rewind(bs, i, j, v1, v2, t), i).pos))

\* resolve once d, r, v and d_dot_v are known.
ResolvePair(bs, i, j, d, r, v, d_dot_v, weight1, weight2) ==
    IF ~Overlapping(d, r) THEN bs
    ELSE IF Ge(d_dot_v, Zero) /\ ~VEq(d, VZero)
    THEN PushApart(bs, i, j, SeparationPush(d, r), weight1, weight2)
    ELSE Impact(bs, i, j, At(bs, i).vel, At(bs, j).vel, v, weight1, weight2,
                RewindTime(d_dot_v, MagSq(v), MagSq(d), Mul(r, r)))

\* Simulation::resolve on the bodies bs, for the indices i and j.
Resolve(bs, i, j) ==
    ResolvePair(bs, i, j,
                VSub(At(bs, j).pos, At(bs, i).pos),
                Add(At(bs, i).radius, At(bs, j).radius),
                VSub(At(bs, j).vel, At(bs, i).vel),
                Dot(VSub(At(bs, j).pos, At(bs, i).pos), VSub(At(bs, j).vel, At(bs, i).vel)),
                Div(At(bs, j).mass, Add(At(bs, i).mass, At(bs, j).mass)),
                Div(At(bs, i).mass, Add(At(bs, i).mass, At(bs, j).mass)))

-----------------------------------------------------------------------------
(* Inputs *)

\* Where the bodies of a tree input sit: the grid points of a triangle of side 2.
Coords == {0, 1, 2}
Positions == {V(R(c[1]), R(c[2])) : c \in {xy \in Coords \X Coords : xy[1] + xy[2] <= 2}}

\* Where the force is queried: on a body, between bodies, and away from all of them.
QueryPoints == {V(R(0), R(0)), V(R(1), R(1)), V(R(2), R(0)), V(R(3), R(3))}

\* A body at rest with unit radius, as the tree sees it (position and mass).
TreeBody(p, m) == NewBody(p, VZero, m, One)

\* The k-th body of a tree input has mass 1 (k odd) or 2 (k even).
MassOf(k) == R(2 - (k % 2))

TreeInputs(n) == {[k \in 1..n |-> TreeBody(ps[k], MassOf(k))] : ps \in [1..n -> Positions]}

\* S3 of the specification: two bodies at (2,3), of mass 1 and 4.
S3Bodies == <<TreeBody(V(R(2), R(3)), R(1)), TreeBody(V(R(2), R(3)), R(4))>>

\* S1 of the specification: A at (0,0) and B at (10,0), at rest, of mass 1 and radius 1.
S1Bodies == <<TreeBody(V(R(0), R(0)), R(1)), TreeBody(V(R(10), R(0)), R(1))>>

\* Where the force is queried on the tree of bs: S1 at its two bodies, as
\* attract does, the other inputs at the query points.
QueriesFor(bs) == IF bs = S1Bodies THEN {bs[1].pos, bs[2].pos} ELSE QueryPoints

\* The radius of a collision query: below and above the spacing of the grid.
CollisionRadii == {Half, R(3)}

\* theta^2 and epsilon^2 as Quadtree::new stores them.
TreeParams == {<<Zero, One>>, <<One, One>>, <<Zero, Zero>>}

NoOp == [name |-> "new", arg |-> 0, calls |-> 0]

\* No collision query has been made.
NoFound == [body_idx |-> NoBody, radius |-> Zero, emitted |-> <<>>]

Idle == /\ frame = 0 /\ use_rayon = FALSE /\ dt = Zero
        /\ chunks = {} /\ pairs = {} /\ snap = <<>> /\ trace = <<>> /\ op = NoOp

-----------------------------------------------------------------------------
(* SpecTree: one tree build as attract makes it (clear, insert every body in  *)
(* order, propagate), followed by force queries.                              *)

TreeInit ==
    /\ bodies \in {S1Bodies, S3Bodies} \cup UNION {TreeInputs(n) : n \in 1..MaxTreeBodies}
    /\ \E tp \in TreeParams : t_sq = tp[1] /\ e_sq = tp[2]
    /\ nodes = Clear(NewContaining(bodies)).nodes
    /\ parents = <<>>
    /\ pc = "t_insert"
    /\ ins = 0
    /\ query = VZero
    /\ result = VZero
    /\ found = NoFound
    /\ Idle

\* self.quadtree.insert(body.pos, body.mass) for the next body of the slice.
TInsert ==
    /\ pc = "t_insert"
    /\ ins < Len(bodies)
    /\ \E T \in {Insert([nodes |-> nodes, parents |-> parents],
                        bodies[ins + 1].pos, bodies[ins + 1].mass, ins)} :
          /\ ~T.hung
          /\ nodes' = T.nodes
          /\ parents' = T.parents
    /\ ins' = ins + 1
    /\ UNCHANGED <<op, bodies, frame, use_rayon, dt, t_sq, e_sq, pc, chunks, pairs, snap, trace,
                   query, result, found>>

\* self.quadtree.propagate() once every body is in.
TPropagate ==
    /\ pc = "t_insert"
    /\ ins = Len(bodies)
    /\ nodes' = Propagate([nodes |-> nodes, parents |-> parents]).nodes
    /\ pc' = "t_propagated"
    /\ UNCHANGED <<op, bodies, frame, use_rayon, dt, t_sq, e_sq, parents, chunks, pairs, snap,
                   trace, ins, query, result, found>>

\* quadtree.acc(pos) on the finished tree.
TQuery ==
    /\ pc = "t_propagated"
    /\ \E p \in QueriesFor(bodies) :
          /\ query' = p
          /\ result' = Acc(nodes, p, t_sq, e_sq)
    /\ pc' = "t_queried"
    /\ UNCHANGED <<op, bodies, frame, use_rayon, dt, t_sq, e_sq, nodes, parents, chunks, pairs,
                   snap, trace, ins, found>>

\* quadtree.find_collisions(body_idx, pos, radius, callback) on the finished
\* tree, for the first or the last body of the slice at its own position.
TCollisions ==
    /\ pc = "t_propagated"
    /\ \E k \in {1, Len(bodies)}, radius \in CollisionRadii :
          /\ query' = bodies[k].pos
          /\ found' = [body_idx |-> k - 1, radius |-> radius,
                       emitted |-> FindCollisions(nodes, k - 1, bodies[k].pos, radius)]
    /\ pc' = "t_collisions"
    /\ UNCHANGED <<op, bodies, frame, use_rayon, dt, t_sq, e_sq, nodes, parents, chunks, pairs,
                   snap, trace, ins, result>>

TreeNext == TInsert \/ TPropagate \/ TQuery \/ TCollisions

SpecTree == TreeInit /\ [][TreeNext]_vars

-----------------------------------------------------------------------------
(* Claims about the quadtree, checked under SpecTree. *)

RECURSIVE SumMass(_, _)
SumMass(bs, k) == IF k = 0 THEN Zero ELSE Add(SumMass(bs, k - 1), bs[k].mass)

RECURSIVE SumMoment(_, _)
SumMoment(bs, k) ==
    IF k = 0 THEN VZero ELSE VAdd(SumMoment(bs, k - 1), VScale(bs[k].pos, bs[k].mass))

NodeIds == 0..(Len(nodes) - 1)
Built == pc \in {"t_propagated", "t_queried", "t_collisions"}

ChildMass(n) == Add(Add(Add(At(nodes, n.children).mass, At(nodes, n.children + 1).mass),
                        At(nodes, n.children + 2).mass), At(nodes, n.children + 3).mass)

ChildMoment(n) ==
    LET c(j) == At(nodes, n.children + j)
    IN  VAdd(VAdd(VAdd(VScale(c(0).pos, c(0).mass), VScale(c(1).pos, c(1).mass)),
                  VScale(c(2).pos, c(2).mass)), VScale(c(3).pos, c(3).mass))

\* C4: after clear, the insertion of every body and propagate, every internal
\* node's mass is the sum of its four children's masses and its pos is their
\* mass-weighted centroid (the bare sum when the mass is zero); the root's mass
\* is the sum of the body masses and the root's pos is the bodies' centre of mass.
C4_TreeMassIdentity ==
    Built =>
        /\ \A k \in NodeIds :
              LET n == At(nodes, k)
              IN  IsBranch(n) =>
                     /\ NumEq(n.mass, ChildMass(n))
                     /\ IF Gt(n.mass, Zero)
                        THEN VEq(VScale(n.pos, n.mass), ChildMoment(n))
                        ELSE VEq(n.pos, ChildMoment(n))
        /\ NumEq(At(nodes, ROOT).mass, SumMass(bodies, Len(bodies)))
        /\ VEq(At(nodes, ROOT).pos,
               VDivS(SumMoment(bodies, Len(bodies)), SumMass(bodies, Len(bodies))))

\* A propagated tree of three bodies with an internal node below the root.
C4_Witness ==
    /\ Built
    /\ Len(bodies) = 3
    /\ Len(parents) >= 2
    /\ \E k \in NodeIds : k # ROOT /\ IsBranch(At(nodes, k)) /\ At(nodes, k).mass = R(3)

\* The softened direct sum of the claim: d * m / (|d|^2 + eps^2)^(3/2) over the bodies.
DirectTerm(d, m, esq) ==
    LET x == Add(MagSq(d), esq)
    IN  VScale(d, Div(m, Mul(x, Sqrt(x))))

RECURSIVE DirectSum(_, _, _, _)
DirectSum(bs, k, p, esq) ==
    IF k = 0 THEN VZero
    ELSE VAdd(DirectSum(bs, k - 1, p, esq), DirectTerm(VSub(bs[k].pos, p), bs[k].mass, esq))

Leaves == {k \in NodeIds : IsLeaf(At(nodes, k))}
SeqRange(sq) == {sq[i] : i \in 1..Len(sq)}

\* C5: with theta = 0 the force query accepts no internal node and every leaf
\* exactly once, and returns the direct softened sum over the inserted bodies
\* (where the sum is singular, at eps = 0 on a body, both are NaN).
C5_ThetaZeroIsDirectSum ==
    (pc = "t_queried" /\ NumEq(t_sq, Zero)) =>
        LET acc == AcceptedFrom(nodes, ROOT, query, t_sq)
        IN  /\ SeqRange(acc) = Leaves
            /\ Len(acc) = Cardinality(Leaves)
            /\ result = DirectSum(bodies, Len(bodies), query, e_sq)

\* A theta = 0 query on a subdivided tree that holds a merged leaf, with a
\* finite force that is not zero.
C5_Witness ==
    /\ pc = "t_queried"
    /\ NumEq(t_sq, Zero)
    /\ Len(bodies) = 3
    /\ Len(parents) >= 1
    /\ \E k \in Leaves : At(nodes, k).mass = R(3)
    /\ VFinite(result)
    /\ result # VZero

\* The case of C10: the next body descends to an occupied leaf that holds its position.
MergeCase ==
    /\ pc = "t_insert"
    /\ ins < Len(bodies)
    /\ LET leaf == At(nodes, Descend(nodes, ROOT, bodies[ins + 1].pos))
       IN  ~IsEmpty(leaf) /\ VEq(bodies[ins + 1].pos, leaf.pos)

\* C10: inserting a body whose position equals the position held by the occupied
\* leaf it descends to adds its mass to that leaf and changes nothing else: the
\* node count, the parents list, the leaf's pos and body_index and every other
\* node stay as they were.
C10_CoincidentMerge ==
    [][(MergeCase /\ ins' = ins + 1) =>
          LET leaf == Descend(nodes, ROOT, bodies[ins + 1].pos)
          IN  /\ Len(nodes') = Len(nodes)
              /\ parents' = parents
              /\ \A k \in NodeIds : k # leaf => At(nodes', k) = At(nodes, k)
              /\ At(nodes', leaf) =
                   [At(nodes, leaf) EXCEPT !.mass = Add(@, bodies[ins + 1].mass)]]_vars

\* S3 has run: mass 1 then mass 4 at (2,3) give one leaf of mass 5 and no new node.
C10_Witness ==
    /\ bodies = S3Bodies
    /\ ins = 2
    /\ Len(nodes) = 1
    /\ At(nodes, ROOT).mass = R(5)
    /\ At(nodes, ROOT).pos = V(R(2), R(3))
    /\ At(nodes, ROOT).body_index = 0

\* The mass of the first k bodies of bs that sit at p.
RECURSIVE MassAt(_, _, _)
MassAt(bs, k, p) ==
    IF k = 0 THEN Zero
    ELSE Add(MassAt(bs, k - 1, p), IF VEq(bs[k].pos, p) THEN bs[k].mass ELSE Zero)

\* The node the descent of insert reaches for p: children + find_quadrant(p) from the root.
LeafOf(p) == Descend(nodes, ROOT, p)

\* Every body inserted so far is found by the descent, in a leaf that holds its
\* position and the mass inserted there.
InsertedAreFound ==
    \A k \in 1..ins :
        LET leaf == At(nodes, LeafOf(bodies[k].pos))
        IN  /\ IsLeaf(leaf)
            /\ VEq(leaf.pos, bodies[k].pos)
            /\ NumEq(leaf.mass, MassAt(bodies, ins, bodies[k].pos))

\* A leaf is empty, or holds the position of one inserted body, which no other leaf holds.
LeafHoldsOneOrNone ==
    \A i \in Leaves :
        LET n == At(nodes, i)
        IN  \/ NumEq(n.mass, Zero) /\ n.body_index = NoBody
            \/ /\ Gt(n.mass, Zero)
               /\ n.body_index \in 0..(ins - 1)
               /\ VEq(bodies[n.body_index + 1].pos, n.pos)
               /\ LeafOf(n.pos) = i
               /\ \A j \in Leaves \ {i} :
                     Gt(At(nodes, j).mass, Zero) =>
                        /\ ~VEq(At(nodes, j).pos, n.pos)
                        /\ At(nodes, j).body_index # n.body_index

\* What a collision query reports comes from leaves only: each callback is made
\* at a leaf, with the index of a body that sits at that leaf's position, and no
\* leaf calls back twice.
OnlyLeavesReport ==
    pc = "t_collisions" =>
        LET at == CollisionWalkOf(nodes, found.body_idx, query, found.radius).accepted
        IN  /\ found.emitted = Callbacks(nodes, at)
            /\ Cardinality(SeqRange(at)) = Len(at)
            /\ \A k \in 1..Len(at) :
                  /\ IsLeaf(At(nodes, at[k]))
                  /\ found.emitted[k] \in 0..(Len(bodies) - 1)
                  /\ VEq(bodies[found.emitted[k] + 1].pos, At(nodes, at[k]).pos)

SelfLeaves ==
    {k \in SeqRange(AcceptedFrom(nodes, ROOT, query, t_sq)) :
        /\ IsLeaf(At(nodes, k))
        /\ AboveMassFloor(At(nodes, k).mass)
        /\ VEq(At(nodes, k).pos, query)}

\* C13: a leaf that the force query accepts and whose pos is the query position
\* (d = 0) adds exactly zero to the result, for every softening, epsilon = 0
\* included; in S1 with theta = 0 and epsilon = 0 the force at A is (1/100, 0)
\* and the force at B is (-1/100, 0).  (In the first step of S1 nothing moves
\* before attract, which sets body.acc to the force at body.pos.)
C13_SelfInteractionZero ==
    pc = "t_queried" =>
        /\ \A k \in SelfLeaves : Accumulate(At(nodes, k), query, e_sq, VZero) = VZero
        /\ (bodies = S1Bodies /\ NumEq(t_sq, Zero) /\ NumEq(e_sq, Zero)) =>
              /\ query = S1Bodies[1].pos => result = V(<<1, 100>>, Zero)
              /\ query = S1Bodies[2].pos => result = V(<<-1, 100>>, Zero)

\* S1 with theta = 0 and epsilon = 0 has been queried at A: the leaf of A gives
\* d * (mass / 0) = 0 * inf, and the force is NaN in both components.
C13_Witness ==
    /\ pc = "t_queried"
    /\ bodies = S1Bodies /\ NumEq(t_sq, Zero) /\ NumEq(e_sq, Zero)
    /\ query = S1Bodies[1].pos
    /\ SelfLeaves # {}
    /\ IsNaN(result[1]) /\ IsNaN(result[2])

\* With a positive softening the leaf of the querying body adds zero: S1 with
\* theta = 0 and epsilon = 1 queried at A gives the pull of B alone.
C13_Softened ==
    /\ pc = "t_queried"
    /\ bodies = S1Bodies /\ NumEq(t_sq, Zero) /\ NumEq(e_sq, One)
    /\ query = S1Bodies[1].pos
    /\ \A k \in SelfLeaves : Accumulate(At(nodes, k), query, e_sq, VZero) = VZero
    /\ result = Contribution(V(R(10), Zero), One, One)

Internal == {k \in NodeIds : IsBranch(At(nodes, k))}

\* The four indices an internal node addresses as its children.
ChildrenOf(n) == n.children..(n.children + 3)

RECURSIVE Descendants(_, _)
Descendants(ns, k) ==
    IF IsLeaf(At(ns, k)) THEN {}
    ELSE UNION {{c} \cup Descendants(ns, c) : c \in ChildrenOf(At(ns, k))}

\* C15: after clear and any sequence of inserts, every descendant of an internal
\* node has a higher index than the node, its first child the lowest of them;
\* parents lists every internal node exactly once, each before all of its
\* internal descendants, so that the reverse iteration of propagate reaches the
\* internal children of a node before the node.
C15_ChildFirstOrdering ==
    /\ \A k \in Internal :
          \A c \in Descendants(nodes, k) : c > k /\ c >= At(nodes, k).children
    /\ SeqRange(parents) = Internal
    /\ Len(parents) = Cardinality(Internal)
    /\ \A a, b \in 1..Len(parents) :
          parents[b] \in Descendants(nodes, parents[a]) => a < b
    /\ \A a \in 1..Len(parents) :
          \A c \in ChildrenOf(At(nodes, parents[a])) \cap Internal :
              \E b \in (a + 1)..Len(parents) : parents[b] = c

\* Three bodies are in and two levels have been subdivided: the root comes
\* first in parents, its internal child after it.
C15_Witness ==
    /\ ins = 3
    /\ Len(parents) >= 2
    /\ parents[1] = ROOT
    /\ parents[2] \in ChildrenOf(At(nodes, ROOT))
    /\ Descendants(nodes, parents[2]) # {}

\* The walk the last force query made, and the walk the last collision query made.
LastAccWalk == AccWalk(nodes, ROOT, query, t_sq, <<>>, <<>>)
LastCollisionWalk == CollisionWalkOf(nodes, found.body_idx, query, found.radius)

\* The nodes of the last collision query that the walk left by their next
\* pointer: the leaves it reached and the nodes whose quad lies off the query box.
LeftByNext(k) ==
    \/ IsLeaf(At(nodes, k))
    \/ ~QuadOverlaps(At(nodes, k), VSub(query, Broadcast(found.radius)),
                     VAdd(query, Broadcast(found.radius)))


\* The walk ended at a next of 0, every index it read is in the arena, and it
\* read none twice.
WellFormed(w) ==
    /\ w.end = "break"
    /\ SeqRange(w.visited) \subseteq NodeIds
    /\ Cardinality(SeqRange(w.visited)) = Len(w.visited)

\* The leaves a node stands for: itself, or the leaves below it.
LeavesUnder(k) == IF IsLeaf(At(nodes, k)) THEN {k} ELSE Descendants(nodes, k) \cap Leaves

RECURSIVE LeafCount(_, _)
LeafCount(at, k) ==
    IF k = 0 THEN 0 ELSE LeafCount(at, k - 1) + Cardinality(LeavesUnder(at[k]))

\* Every leaf is among the nodes of at or has an ancestor among them, one of
\* the two and one only: the nodes stand for all the leaves, and for no leaf twice.
CoversLeavesOnce(at) ==
    /\ UNION {LeavesUnder(at[k]) : k \in 1..Len(at)} = Leaves
    /\ LeafCount(at, Len(at)) = Cardinality(Leaves)

RECURSIVE MassAlong(_, _)
MassAlong(at, k) == IF k = 0 THEN Zero ELSE Add(MassAlong(at, k - 1), At(nodes, at[k]).mass)

\* C16: on a tree made by clear, inserts and propagate, for every query and
\* theta, the walk of acc and the walk of find_collisions end, read only indices
\* below nodes.len() and read no node twice; the nodes acc accepts cover every
\* leaf exactly once (the leaf itself or one ancestor), so that the accepted
\* masses add up to the mass of the bodies; the nodes find_collisions does not
\* descend into cover every leaf exactly once as well.
C16_TraversalWellFormed ==
    /\ pc = "t_queried" =>
          LET w == LastAccWalk
          IN  /\ WellFormed(w)
              /\ w.accepted = AcceptedFrom(nodes, ROOT, query, t_sq)
              /\ Cardinality(SeqRange(w.accepted)) = Len(w.accepted)
              /\ CoversLeavesOnce(w.accepted)
              /\ NumEq(MassAlong(w.accepted, Len(w.accepted)), SumMass(bodies, Len(bodies)))
    /\ pc = "t_collisions" =>
          LET w == LastCollisionWalk
          IN  /\ WellFormed(w)
              /\ CoversLeavesOnce(SelectSeq(w.visited, LeftByNext))

\* A force query with theta = 1 on a tree of three bodies that accepted an
\* internal node below the root in place of its leaves, and leaves elsewhere.
C16_Witness ==
    /\ pc = "t_queried"
    /\ NumEq(t_sq, One)
    /\ Len(bodies) = 3
    /\ \E k \in SeqRange(LastAccWalk.accepted) \cap Internal :
          k # ROOT /\ Cardinality(Descendants(nodes, k) \cap Leaves) = 4
    /\ \E k \in SeqRange(LastAccWalk.accepted) \cap Leaves : Gt(At(nodes, k).mass, Zero)
    /\ Len(LastAccWalk.visited) < Len(nodes)

-----------------------------------------------------------------------------
(* SpecResolve: one call of resolve(i, j) on a pair of bodies, with a third   *)
(* body standing by.                                                          *)

Q(n, d) == Norm(n, d)

\* Where the second body lies relative to the first, which sits at the origin.
Offsets == {V(R(0), R(0)), V(R(1), R(0)), V(Q(3, 2), R(0)), V(R(2), R(0)), V(R(3), R(0)),
            V(R(0), R(1)), V(R(1), R(1)), V(R(3), R(4)), V(R(-1), R(0))}

Velocities == {V(R(0), R(0)), V(R(1), R(0)), V(R(-1), R(0)), V(R(0), R(-1)), V(R(-3), R(-4))}

\* (mass of the first, mass of the second) and (radius of the first, radius of the second).
MassPairs == {<<R(1), R(1)>>, <<R(1), R(2)>>, <<R(3), R(1)>>}
RadiusPairs == {<<R(1), R(1)>>, <<R(1), R(2)>>, <<R(2), R(3)>>}

Bystander == NewBody(V(R(1), R(1)), V(R(1), R(0)), R(1), R(1))

\* The square roots resolve takes on this pair are rational, so that the model's
\* arithmetic is exact on it.
ExactPair(a, b) ==
    LET d == VSub(b.pos, a.pos)
        r == Add(a.radius, b.radius)
        v == VSub(b.vel, a.vel)
        dv == Dot(d, v)
    IN  \/ ~Overlapping(d, r)
        \/ Ge(dv, Zero) /\ ~VEq(d, VZero) /\ IsSquare(MagSq(d))
        \/ ~(Ge(dv, Zero) /\ ~VEq(d, VZero))
           /\ IsSquare(FMax(Sub(Mul(dv, dv), Mul(MagSq(v), Sub(MagSq(d), Mul(r, r)))), Zero))

ResolveInit ==
    /\ \E o \in Offsets, va \in Velocities, vb \in Velocities,
          mp \in MassPairs, rp \in RadiusPairs :
          LET a == NewBody(VZero, va, mp[1], rp[1])
              b == NewBody(o, vb, mp[2], rp[2])
          IN  ExactPair(a, b) /\ bodies = <<a, b, Bystander>>
    /\ pc = "r_call"
    /\ frame = 0 /\ use_rayon = FALSE /\ dt = Zero /\ t_sq = Zero /\ e_sq = Zero
    /\ nodes = <<>> /\ parents = <<>> /\ chunks = {} /\ pairs = {} /\ snap = <<>>
    /\ trace = <<>> /\ ins = 0 /\ query = VZero /\ result = VZero /\ found = NoFound /\ op = NoOp

\* self.resolve(i, j) for the pair, in either order; snap keeps the bodies as they were.
RResolve ==
    /\ pc = "r_call"
    /\ \E ij \in {<<0, 1>>, <<1, 0>>} :
          /\ bodies' = Resolve(bodies, ij[1], ij[2])
          /\ pairs' = {ij}
    /\ snap' = bodies
    /\ pc' = "r_done"
    /\ UNCHANGED <<op, frame, use_rayon, dt, t_sq, e_sq, nodes, parents, chunks, trace, ins,
                   query, result, found>>

ResolveNext == RResolve

SpecResolve == ResolveInit /\ [][ResolveNext]_vars

-----------------------------------------------------------------------------
(* Claims about resolve, checked under SpecResolve. *)

\* The pair resolve was called on, and the quantities of the call as they were before it.
RI == (CHOOSE ij \in pairs : TRUE)[1]
RJ == (CHOOSE ij \in pairs : TRUE)[2]
PreD == VSub(At(snap, RJ).pos, At(snap, RI).pos)
PreR == Add(At(snap, RI).radius, At(snap, RJ).radius)
PreV == VSub(At(snap, RJ).vel, At(snap, RI).vel)
PostD == VSub(At(bodies, RJ).pos, At(bodies, RI).pos)
PostV == VSub(At(bodies, RJ).vel, At(bodies, RI).vel)
Resolved == pc = "r_done"

\* C6: resolve(i, j) on a pair that does not overlap (|d|^2 > r^2) leaves every
\* field of both bodies, and every other body, unchanged.
C6_NonOverlappingUntouched ==
    (Resolved /\ Gt(MagSq(PreD), Mul(PreR, PreR))) => bodies = snap

\* resolve has returned from a call on a pair that lies apart.
C6_Witness ==
    /\ Resolved
    /\ Gt(MagSq(PreD), Mul(PreR, PreR))
    /\ Lt(Dot(PreD, PreV), Zero)

Approaching == Resolved /\ Le(MagSq(PreD), Mul(PreR, PreR)) /\ Lt(Dot(PreD, PreV), Zero)

S4Before == <<NewBody(VZero, V(R(1), R(0)), R(1), R(1)),
              NewBody(V(Q(3, 2), R(0)), V(R(-1), R(0)), R(1), R(1)), Bystander>>

\* C7: after resolve(i, j) on an overlapping pair that is approaching (d.v < 0)
\* the bodies lie at least radius_i + radius_j apart and are no longer
\* approaching; in S4 the first body ends moving left, the second moving right,
\* at distance >= 2.
C7_SeparationGuarantee ==
    /\ Approaching =>
          /\ Ge(MagSq(PostD), Mul(PreR, PreR))
          /\ Ge(Dot(PostD, PostV), Zero)
    /\ (Resolved /\ snap = S4Before /\ RI = 0) =>
          /\ Lt(At(bodies, 0).vel[1], Zero)
          /\ Gt(At(bodies, 1).vel[1], Zero)
          /\ Ge(MagSq(PostD), R(4))

\* S4 has been resolved.
C7_Witness ==
    /\ Resolved /\ snap = S4Before /\ RI = 0
    /\ At(bodies, 0).vel = V(Q(-1, 2), R(0))
    /\ At(bodies, 1).vel = V(Q(1, 2), R(0))
    /\ PostD = V(Q(9, 4), R(0))

Separating ==
    /\ Resolved
    /\ Le(MagSq(PreD), Mul(PreR, PreR))
    /\ Ge(Dot(PreD, PreV), Zero)
    /\ ~VEq(PreD, VZero)

Moment(bs, i, j) == VAdd(VScale(At(bs, i).pos, At(bs, i).mass),
                         VScale(At(bs, j).pos, At(bs, j).mass))

S5Before == <<NewBody(VZero, VZero, R(1), R(1)),
              NewBody(V(Q(3, 2), R(0)), VZero, R(1), R(1)), Bystander>>

\* C8: on an overlapping pair that is not approaching (d.v >= 0, d # 0) resolve
\* moves the two bodies apart along d, each by the other's share of the mass
\* (the pair's centre of mass stays), to the distance radius_i + radius_j
\* exactly, and changes nothing but the two positions.
C8_SeparationOnly ==
    Separating =>
        /\ NumEq(MagSq(PostD), Mul(PreR, PreR))
        /\ NumEq(Sub(Mul(PostD[1], PreD[2]), Mul(PostD[2], PreD[1])), Zero)
        /\ Gt(Dot(PostD, PreD), Zero)
        /\ VEq(Moment(bodies, RI, RJ), Moment(snap, RI, RJ))
        /\ \A k \in 0..2 : At(bodies, k) = [At(snap, k) EXCEPT !.pos = At(bodies, k).pos]
        /\ At(bodies, 2) = At(snap, 2)

\* S5 has been resolved: the bodies end at -1/4 and 7/4, at distance 2.
C8_Witness ==
    /\ Resolved /\ snap = S5Before /\ RI = 0
    /\ At(bodies, 0).pos = V(Q(-1, 4), R(0))
    /\ At(bodies, 1).pos = V(Q(7, 4), R(0))

\* resolve has returned from a call on two bodies at the same position.
Coincident == Resolved /\ VEq(PreD, VZero)

\* C12: resolve(i, j) on two coincident bodies (d = 0), whatever their relative
\* velocity, is skipped: the positions and velocities of both bodies are what
\* they were, and so are finite.
C12_DegenerateIsSkipped ==
    Coincident =>
        \A k \in {RI, RJ} :
            /\ At(bodies, k).pos = At(snap, k).pos
            /\ At(bodies, k).vel = At(snap, k).vel

\* Two coincident bodies with the same velocity have been resolved: d = 0 fails
\* the test d != Vec2::zero() of the separating branch, the call goes on to the
\* impacting branch, t is 0 / 0 and both positions and velocities are NaN.
C12_Witness ==
    /\ Coincident
    /\ VEq(PreV, VZero)
    /\ \A k \in {RI, RJ} :
          /\ IsNaN(At(bodies, k).pos[1]) /\ IsNaN(At(bodies, k).pos[2])
          /\ IsNaN(At(bodies, k).vel[1]) /\ IsNaN(At(bodies, k).vel[2])

\* Two coincident bodies that move relative to each other have been resolved: t
\* is r / |v|, and the call leaves both with a new position and a new velocity.
C12_MovingPair ==
    /\ Coincident
    /\ ~VEq(PreV, VZero)
    /\ \A k \in {RI, RJ} :
          /\ VFinite(At(bodies, k).pos) /\ ~VEq(At(bodies, k).pos, At(snap, k).pos)
          /\ VFinite(At(bodies, k).vel) /\ ~VEq(At(bodies, k).vel, At(snap, k).vel)

-----------------------------------------------------------------------------
(* utils.rs: uniform_disc.  fastrand is seeded with 0, so the draws are one    *)
(* fixed stream; which stream is left open (Streams).  The k-th body drawn     *)
(* gets its angle on one of the four axes and its radial draw from {0, 1/2}.   *)

Streams == {0, 1}

\* (cos, sin) of the angle a = fastrand::f32() * TAU of the k-th draw.
SampleDir(s, k) == <<V(R(1), R(0)), V(R(0), R(1)), V(R(-1), R(0)), V(R(0), R(-1))>>[((s + k) % 4) + 1]

\* The radial draw fastrand::f32() of the k-th draw.
SampleU(s, k) == IF (s + k) % 2 = 0 THEN Zero ELSE Half

InnerRadius == R(25)
CenterMass == R(1000000)

OuterRadius(n) == Mul(Sqrt(R(n)), R(5))

\* r = fastrand::f32() * (1.0 - t * t) + t * t with t = inner_radius / outer_radius.
RadialFraction(u, t) == Add(Mul(u, Sub(One, Mul(t, t))), Mul(t, t))

\* One body of the while loop: mass 1.0, radius mass.cbrt() = 1.0, the velocity
\* direction perpendicular to the position.
Satellite(n, dir, u) ==
    NewBody(VScale(VScale(dir, OuterRadius(n)),
                   Sqrt(RadialFraction(u, Div(InnerRadius, OuterRadius(n))))),
            V(dir[2], Neg(dir[1])), One, One)

\* The massive central body, pushed before the loop whatever n is.
Center == NewBody(VZero, VZero, CenterMass, InnerRadius)

\* while bodies.len() < n { ... bodies.push(...) }
RECURSIVE Fill(_, _, _)
Fill(bs, n, s) ==
    IF Len(bs) < n
    THEN Fill(Append(bs, Satellite(n, SampleDir(s, Len(bs)), SampleU(s, Len(bs)))), n, s)
    ELSE bs

\* bodies.sort_by(|a, b| a.pos.mag_sq().total_cmp(&b.pos.mag_sq())): a stable
\* sort, written as an insertion behind every body that is not farther out.
RECURSIVE SortedInsert(_, _, _)
SortedInsert(bs, b, k) ==
    IF k = 0 \/ Le(MagSq(bs[k].pos), MagSq(b.pos))
    THEN SubSeq(bs, 1, k) \o <<b>> \o SubSeq(bs, k + 1, Len(bs))
    ELSE SortedInsert(bs, b, k - 1)

RECURSIVE SortByDistance(_, _)
SortByDistance(bs, k) ==
    IF k = 0 THEN <<>>
    ELSE SortedInsert(SortByDistance(bs, k - 1), bs[k], k - 1)

\* for i in 0..n: the mass inside the orbit is accumulated and the velocity of
\* every body off the centre is scaled by sqrt(mass / |pos|).
RECURSIVE OrbitalVelocities(_, _, _, _)
OrbitalVelocities(bs, i, n, mass) ==
    IF i >= n THEN bs
    ELSE IF VEq(At(bs, i).pos, VZero)
    THEN OrbitalVelocities(bs, i + 1, n, Add(mass, At(bs, i).mass))
    ELSE OrbitalVelocities(
             Put(bs, i, [At(bs, i) EXCEPT !.vel =
                 VScale(@, Sqrt(Div(Add(mass, At(bs, i).mass), Mag(At(bs, i).pos))))]),
             i + 1, n, Add(mass, At(bs, i).mass))

\* uniform_disc(n) on the stream s.
UniformDisc(n, s) ==
    OrbitalVelocities(SortByDistance(Fill(<<Center>>, n, s), Len(Fill(<<Center>>, n, s))),
                      0, n, Zero)

-----------------------------------------------------------------------------
(* Spec: a simulation built by with_bodies, driven through the API of         *)
(* c_api.rs.  step() is followed phase by phase.  The job system (rustfiber)  *)
(* enters by its parallel-for contract: the index range is handed out in      *)
(* non-overlapping contiguous sub-ranges that cover it exactly once, their    *)
(* elements are processed in any interleaving, and the wait returns when all  *)
(* of them are done.                                                          *)


tree_driver == <<ins, query, result, found>>
tree_params == <<dt, t_sq, e_sq>>

\* The bodies handed to Simulation::with_bodies: none, one, two that overlap
\* after the first iterate, two that do so after the second, and two triples.
AllScenes ==
    { <<>>,
      <<NewBody(V(R(1), R(2)), V(R(1), R(0)), R(2), R(1))>>,
      <<NewBody(V(R(0), R(0)), V(R(1), R(0)), R(1), R(1)),
        NewBody(V(R(2), R(0)), V(R(-1), R(0)), R(1), R(1))>>,
      <<NewBody(V(R(0), R(0)), V(R(1), R(0)), R(1), R(1)),
        NewBody(V(<<43, 20>>, R(0)), V(R(-1), R(0)), R(1), R(1))>>,
      <<NewBody(V(R(0), R(0)), V(R(0), R(0)), R(2), R(1)),
        NewBody(V(R(1), R(0)), V(R(2), R(0)), R(1), R(1)),
        NewBody(V(R(0), R(4)), V(R(0), R(-2)), R(1), R(1))>>,
      <<NewBody(V(R(0), R(0)), V(R(1), R(0)), R(1), R(1)),
        NewBody(V(R(2), R(0)), V(R(-1), R(0)), R(2), R(1)),
        NewBody(V(R(1), R(1)), V(R(0), R(-2)), R(1), R(1))>> }

Scenes == {bs \in AllScenes : Len(bs) <= MaxBodies}

\* Simulation_AddBody and Simulation_ApplyForce are called with these arguments.
AddInputs == {NewBody(V(R(1), R(0)), V(R(0), R(0)), R(1), R(1)),
              NewBody(V(R(4), R(4)), V(R(-2), R(-2)), R(3), R(2))}
ForceInputs == {[pos |-> VZero, force |-> V(R(1), R(0)), radius |-> R(2)]}

\* Simulation::DEFAULT_DT, DEFAULT_THETA, DEFAULT_EPSILON.
DEFAULT_DT == <<1, 20>>
DEFAULT_THETA == One
DEFAULT_EPSILON == One

\* with_bodies_and_job_system: frame 0, the fiber backend, an empty tree.
Init ==
    /\ bodies \in Scenes
    /\ frame = 0
    /\ use_rayon = FALSE
    /\ dt = DEFAULT_DT /\ t_sq = Mul(DEFAULT_THETA, DEFAULT_THETA)
    /\ e_sq = Mul(DEFAULT_EPSILON, DEFAULT_EPSILON)
    /\ nodes = <<>> /\ parents = <<>>
    /\ pc = "idle"
    /\ chunks = {} /\ pairs = {} /\ snap = <<>> /\ trace = <<>>
    /\ ins = 0 /\ query = VZero /\ result = VZero /\ found = NoFound
    /\ op = NoOp

Called(name, arg) == [name |-> name, arg |-> arg, calls |-> op.calls + 1]

\* Simulation_GetBodyCount.
GetBodyCount == Len(bodies)

\* Simulation_Reset -> Simulation::reset.
Reset ==
    /\ pc = "idle" /\ op.calls < MaxCalls
    /\ \E n \in 0..MaxBodies, s \in Streams :
          /\ bodies' = UniformDisc(n, s)
          /\ op' = Called("reset", n)
    /\ frame' = 0
    /\ UNCHANGED <<use_rayon, tree_params, nodes, parents, pc, chunks, pairs, snap, trace,
                   tree_driver>>

\* Simulation_SetUseRayon -> Simulation::set_use_rayon.
SetUseRayon ==
    /\ pc = "idle" /\ op.calls < MaxCalls
    /\ \E b \in BOOLEAN :
          /\ use_rayon' = b
          /\ op' = Called("set_use_rayon", IF b THEN 1 ELSE 0)
    /\ UNCHANGED <<bodies, frame, tree_params, nodes, parents, pc, chunks, pairs, snap, trace,
                   tree_driver>>

\* Simulation_AddBody.
AddBody ==
    /\ pc = "idle" /\ op.calls < MaxCalls
    /\ Len(bodies) < MaxBodies
    /\ \E b \in AddInputs : bodies' = Append(bodies, b)
    /\ op' = Called("add_body", 0)
    /\ UNCHANGED <<frame, use_rayon, tree_params, nodes, parents, pc, chunks, pairs, snap,
                   trace, tree_driver>>

\* The loop of Simulation_ApplyForce.
Pushed(bs, f) ==
    [k \in DOMAIN bs |->
        IF Lt(MagSq(VSub(bs[k].pos, f.pos)), Mul(f.radius, f.radius))
        THEN [bs[k] EXCEPT !.vel = VAdd(@, f.force)] ELSE bs[k]]

\* Simulation_ApplyForce.
ApplyForce ==
    /\ pc = "idle" /\ op.calls < MaxCalls
    /\ \E f \in ForceInputs : bodies' = Pushed(bodies, f)
    /\ op' = Called("apply_force", 0)
    /\ UNCHANGED <<frame, use_rayon, tree_params, nodes, parents, pc, chunks, pairs, snap,
                   trace, tree_driver>>

\* Simulation_Step -> Simulation::step: self.job_system.start_new_frame().
StepBegin ==
    /\ pc = "idle" /\ frame < MaxFrame
    /\ pc' = "new_frame"
    /\ trace' = <<"new_frame">>
    /\ op' = [op EXCEPT !.name = "step", !.arg = 0]
    /\ UNCHANGED <<bodies, frame, use_rayon, tree_params, nodes, parents, chunks, pairs, snap,
                   tree_driver>>

\* The ways a parallel-for splits 0..len into contiguous sub-ranges <<start, end>>.
ChunksOf(len, cuts) ==
    {<<a, b>> \in (cuts \cup {0}) \X (cuts \cup {len}) :
        a < b /\ \A c \in cuts : ~(a < c /\ c < b)}

Partitions(len) ==
    IF len = 0 THEN {{}} ELSE {ChunksOf(len, cuts) : cuts \in SUBSET (1..(len - 1))}

\* A worker took the first element of the chunk c.
Advance(cs, c) ==
    (cs \ {c}) \cup (IF c[1] + 1 < c[2] THEN {<<c[1] + 1, c[2]>>} ELSE {})

\* for_each / wait_for_counter return once every chunk is finished.
AllDone(cs) == cs = {}

\* (mutant) the closure also reads the position of the next body of the slice.
WorkerUpdate_Neighbour(bs, i, h) ==
    Update([At(bs, i) EXCEPT !.pos = VAdd(@, At(bs, (i + 1) % Len(bs)).pos)], h)

\* The closure of iterate on element i: body.update(dt).
WorkerUpdate(bs, i, h) == Update(At(bs, i), h)

\* iterate, rayon backend: self.bodies.par_iter_mut().for_each(..).
IterateRayon ==
    /\ pc = "new_frame" /\ use_rayon
    /\ chunks' \in Partitions(Len(bodies))
    /\ snap' = bodies
    /\ pc' = "iterate"
    /\ UNCHANGED <<bodies, frame, use_rayon, tree_params, nodes, parents, pairs, trace,
                   tree_driver, op>>

\* iterate, fiber backend: self.bodies.fiber_iter_mut(&self.job_system).for_each(..).
IterateFiber ==
    /\ pc = "new_frame" /\ ~use_rayon
    /\ chunks' \in Partitions(Len(bodies))
    /\ snap' = bodies
    /\ pc' = "iterate"
    /\ UNCHANGED <<bodies, frame, use_rayon, tree_params, nodes, parents, pairs, trace,
                   tree_driver, op>>

\* One worker of iterate processes the next element of its chunk.
IterateWorker ==
    /\ pc = "iterate"
    /\ \E c \in chunks :
          /\ bodies' = Put(bodies, c[1], WorkerUpdate(bodies, c[1], dt))
          /\ chunks' = Advance(chunks, c)
    /\ UNCHANGED <<frame, use_rayon, tree_params, nodes, parents, pc, pairs, snap, trace,
                   tree_driver, op>>

\* for_each returns: iterate is over.
IterateJoin ==
    /\ pc = "iterate" /\ AllDone(chunks)
    /\ pc' = "iterated"
    /\ trace' = Append(trace, "iterate")
    /\ UNCHANGED <<bodies, frame, use_rayon, tree_params, nodes, parents, chunks, pairs, snap,
                   tree_driver, op>>

\* The rectangle collide builds around a body, as <<min, max>>.
RectOf(b) == <<VSub(b.pos, VScale(VOne, b.radius)), VAdd(b.pos, VScale(VOne, b.radius))>>

\* Two rectangles share a point on both axes.
RectsMeet(a, b) ==
    /\ Le(a[1][1], b[2][1]) /\ Le(b[1][1], a[2][1])
    /\ Le(a[1][2], b[2][2]) /\ Le(b[1][2], a[2][2])

\* broccoli's find_colliding_pairs: the index pairs whose rectangles meet, each once.
CollidingPairs(bs) ==
    {ij \in (0..(Len(bs) - 1)) \X (0..(Len(bs) - 1)) :
        ij[1] < ij[2] /\ RectsMeet(RectOf(At(bs, ij[1])), RectOf(At(bs, ij[2])))}

\* collide: the rectangles are taken from the positions as they are now and the
\* tree of the broad phase is built on them.
CollideBegin ==
    /\ pc = "iterated"
    /\ pairs' = CollidingPairs(bodies)
    /\ snap' = bodies
    /\ pc' = "collide"
    /\ UNCHANGED <<bodies, frame, use_rayon, tree_params, nodes, parents, chunks, trace,
                   tree_driver, op>>

\* The callback of find_colliding_pairs: self.resolve(i, j) for a pair not yet
\* reported, handed over in either order.
CollidePair ==
    /\ pc = "collide"
    /\ \E p \in pairs, ij \in {<<0, 1>>, <<1, 0>>} :
          /\ bodies' = Resolve(bodies, p[ij[1] + 1], p[ij[2] + 1])
          /\ pairs' = pairs \ {p}
    /\ UNCHANGED <<frame, use_rayon, tree_params, nodes, parents, pc, chunks, snap, trace,
                   tree_driver, op>>

\* find_colliding_pairs returns: collide is over.
CollideEnd ==
    /\ pc = "collide" /\ pairs = {}
    /\ pc' = "collided"
    /\ trace' = Append(trace, "collide")
    /\ UNCHANGED <<bodies, frame, use_rayon, tree_params, nodes, parents, chunks, pairs, snap,
                   tree_driver, op>>

\* for body in &self.bodies { self.quadtree.insert(..) }, from body k on.
RECURSIVE InsertAll(_, _, _)

\* The loop goes on with the tree T the last insert returned, unless it never did.
InsertNext(T, bs, k) == IF T.hung THEN T ELSE InsertAll(T, bs, k)

InsertAll(T, bs, k) ==
    IF k = Len(bs) THEN T
    ELSE InsertNext(Insert(T, At(bs, k).pos, At(bs, k).mass, k), bs, k + 1)

\* new_containing, clear and the inserts; hung = TRUE when an insert never returns.
Inserted(bs) ==
    InsertAll([nodes |-> Clear(NewContaining(bs)).nodes, parents |-> <<>>, hung |-> FALSE],
              bs, 0)

\* The sequential head of attract: new_containing, clear, the inserts, propagate.
BuildTree(bs) == Propagate(Inserted(bs))

\* An insert that never returns keeps attract from going on.
BuildReturns(bs) == ~Inserted(bs).hung

AttractBuild ==
    /\ pc = "collided"
    /\ \E T \in {Inserted(bodies)} :
          /\ ~T.hung
          /\ \E P \in {Propagate(T)} : nodes' = P.nodes /\ parents' = P.parents
    /\ snap' = bodies
    /\ pc' = "built"
    /\ UNCHANGED <<bodies, frame, use_rayon, tree_params, chunks, pairs, trace, tree_driver,
                   op>>

\* attract, rayon backend: self.bodies.par_iter_mut().for_each(..).
AttractRayon ==
    /\ pc = "built" /\ use_rayon
    /\ chunks' \in Partitions(Len(bodies))
    /\ pc' = "attract"
    /\ UNCHANGED <<bodies, frame, use_rayon, tree_params, nodes, parents, pairs, snap, trace,
                   tree_driver, op>>

\* attract, fiber backend: nothing is handed out for an empty slice, otherwise
\* parallel_for_chunked_with_hint(0..len, ..).
AttractFiber ==
    /\ pc = "built" /\ ~use_rayon
    /\ IF Len(bodies) = 0 THEN chunks' = {} ELSE chunks' \in Partitions(Len(bodies))
    /\ pc' = "attract"
    /\ UNCHANGED <<bodies, frame, use_rayon, tree_params, nodes, parents, pairs, snap, trace,
                   tree_driver, op>>

\* The closure of attract on element i: body.acc = quadtree.acc(body.pos).
WorkerAcc(bs, i, ns, tsq, esq) == [At(bs, i) EXCEPT !.acc = Acc(ns, At(bs, i).pos, tsq, esq)]

\* One worker of attract processes the next element of its chunk.
AttractWorker ==
    /\ pc = "attract"
    /\ \E c \in chunks :
          /\ bodies' = Put(bodies, c[1], WorkerAcc(bodies, c[1], nodes, t_sq, e_sq))
          /\ chunks' = Advance(chunks, c)
    /\ UNCHANGED <<frame, use_rayon, tree_params, nodes, parents, pc, pairs, snap, trace,
                   tree_driver, op>>

\* (mutant) attract returns without waiting for the counter.
AttractJoin_NoWait ==
    /\ pc = "attract"
    /\ pc' = "attracted"
    /\ trace' = Append(trace, "attract")
    /\ UNCHANGED <<bodies, frame, use_rayon, tree_params, nodes, parents, chunks, pairs, snap,
                   tree_driver, op>>

\* wait_for_counter / for_each returns: attract is over.
AttractJoin ==
    /\ pc = "attract" /\ AllDone(chunks)
    /\ pc' = "attracted"
    /\ trace' = Append(trace, "attract")
    /\ UNCHANGED <<bodies, frame, use_rayon, tree_params, nodes, parents, chunks, pairs, snap,
                   tree_driver, op>>

\* self.frame += 1, and step returns.
StepEnd ==
    /\ pc = "attracted"
    /\ frame' = frame + 1
    /\ pc' = "idle"
    /\ UNCHANGED <<bodies, use_rayon, tree_params, nodes, parents, chunks, pairs, snap, trace,
                   tree_driver, op>>

Next ==
    \/ Reset \/ SetUseRayon \/ AddBody \/ ApplyForce
    \/ StepBegin
    \/ IterateRayon \/ IterateFiber \/ IterateWorker \/ IterateJoin
    \/ CollideBegin \/ CollidePair \/ CollideEnd
    \/ AttractBuild \/ AttractRayon \/ AttractFiber \/ AttractWorker \/ AttractJoin
    \/ StepEnd

Spec == Init /\ [][Next]_vars

-----------------------------------------------------------------------------
(* Claims about step and the API, checked under Spec. *)

PhaseOrder == <<"new_frame", "iterate", "collide", "attract">>

IsPrefix(s, t) == Len(s) <= Len(t) /\ s = SubSeq(t, 1, Len(s))

\* Where the caller stands against the phases that have completed, and who may
\* still be at work there.
PhasesInOrder ==
    /\ IsPrefix(trace, PhaseOrder)
    /\ pc \in {"new_frame", "iterate"} => trace = SubSeq(PhaseOrder, 1, 1)
    /\ pc \in {"iterated", "collide"} => trace = SubSeq(PhaseOrder, 1, 2)
    /\ pc \in {"collided", "built", "attract"} => trace = SubSeq(PhaseOrder, 1, 3)
    /\ pc = "attracted" => trace = PhaseOrder
    /\ chunks # {} => pc \in {"iterate", "attract"}
    /\ pairs # {} => pc = "collide"

\* One transition of the simulation against the frame counter.
FrameDiscipline ==
    /\ pc' # pc => chunks = {} /\ pairs = {}
    /\ frame' # frame =>
          \/ pc = "attracted" /\ trace = PhaseOrder /\ frame' = frame + 1
          \/ op'.name = "reset" /\ op'.calls = op.calls + 1 /\ frame' = 0
    /\ (pc # "idle" /\ pc' = "idle") => frame' = frame + 1

\* C1: every step runs new-frame, iterate, collide, attract in this order, a
\* phase beginning only once the previous one and all of its workers are done;
\* the frame counter goes up by exactly one per step, after attract has
\* completed, and apart from that only reset changes it.
C1_PhaseOrder == []PhasesInOrder /\ [][FrameDiscipline]_vars

C1_Witness ==
    /\ frame = 2 /\ pc = "idle" /\ trace = PhaseOrder
    /\ Len(bodies) = 2 /\ op.name = "step" /\ op.calls > 0

Masses(bs) == [k \in DOMAIN bs |-> bs[k].mass]

InStep == pc # "idle" \/ pc' # "idle"

\* C2: no transition of a step (iterate and its workers, collide and every
\* resolve, attract and its workers) writes the mass of a body, so the sum of
\* the masses is the same after any number of steps.
C2_MassConservation ==
    [][InStep => /\ Masses(bodies') = Masses(bodies)
                 /\ SumMass(bodies', Len(bodies')) = SumMass(bodies, Len(bodies))]_vars

C2_Witness ==
    /\ pc = "collided" /\ frame >= 1 /\ Len(bodies) >= 2
    /\ \E k \in DOMAIN bodies : bodies[k].vel # snap[k].vel
    /\ Masses(bodies) = Masses(snap)

\* Element i of the slice is still waiting in a chunk.
Pending(i) == \E c \in chunks : c[1] <= i /\ i < c[2]

\* What the parallel-for of iterate has made of the bodies it started from.
IterateResult(i) == IF Pending(i) THEN At(snap, i) ELSE Update(At(snap, i), dt)

\* What the parallel-for of attract has made of the bodies it started from.
AttractResult(i) ==
    IF Pending(i) THEN At(snap, i)
    ELSE [At(snap, i) EXCEPT !.acc = Acc(BuildTree(snap).nodes, At(snap, i).pos, t_sq, e_sq)]

\* C3: whichever backend runs the parallel-for, however it cuts the index range
\* into chunks and in whatever order the workers run, every body a worker has
\* processed is what the closure makes of that body alone as it was when the
\* phase began (and of the tree, which is only read), and every other body is
\* untouched: the bodies after iterate and after attract are one function of
\* the bodies before.
C3_BackendDeterminism ==
    /\ pc \in {"iterate", "iterated"} =>
          /\ Len(bodies) = Len(snap)
          /\ \A i \in 0..(Len(snap) - 1) : At(bodies, i) = IterateResult(i)
    /\ pc \in {"attract", "attracted"} =>
          /\ Len(bodies) = Len(snap)
          /\ nodes = BuildTree(snap).nodes
          /\ \A i \in 0..(Len(snap) - 1) : At(bodies, i) = AttractResult(i)

C3_Witness ==
    /\ use_rayon /\ pc = "attracted" /\ frame >= 1 /\ Len(bodies) = 2
    /\ \A k \in DOMAIN bodies : bodies[k].acc # snap[k].acc /\ VFinite(bodies[k].acc)

\* C9: after reset(n) the simulation holds exactly n bodies and the frame
\* counter is 0, for every n >= 0.
C9_ResetCount == op.name = "reset" => (GetBodyCount = op.arg /\ frame = 0)

\* reset(0) has left one body, the central one.
C9_Witness ==
    /\ op.name = "reset" /\ op.arg = 0 /\ frame = 0
    /\ GetBodyCount = 1 /\ bodies[1] = Center

=============================================================================
